---- MODULE Spec2Model ----
(***************************************************************************)
(* A model of tass_scraper.py: NewsScraperConfig.validate, the             *)
(* UserAgentRotator, the retrying session of NewsScraper._setup_session,   *)
(* and NewsScraper.run / process_category / get_news_list /                *)
(* fetch_article_content with the worker threads of the ThreadPoolExecutor.*)
(***************************************************************************)
EXTENDS Integers, Sequences, FiniteSets, TLC

(* ---------------------------------------------------------------- bounds *)
\* longest configured category list
MaxCats == 2
\* most items a listing response carries
MaxItems == 2
\* largest max_workers explored
MaxWorkers == 2
\* largest max_retries explored
MaxRetries == 1
\* largest pool of distinct user agents
MaxPool == 2
\* largest pool and most calls explored for the rotator alone
MaxAgents == 4
MaxCalls == 8
\* largest integer setting explored for validate()
MaxCfg == 2
\* most path segments of a link in a listing response
MaxSegs == 2

(* ------------------------------------------------------- floats of Python *)
\* A Python float: a number or NaN (argparse type=float accepts "nan").
Float(v) == [nan |-> FALSE, v |-> v]
NaN == [nan |-> TRUE, v |-> 0]
\* a >= b on floats: every comparison with NaN is False
PyGE(a, b) == ~a.nan /\ ~b.nan /\ a.v >= b.v
\* a < b on floats
PyLT(a, b) == ~a.nan /\ ~b.nan /\ a.v < b.v

(* ------------------------------------------------------------- constants *)
\* NewsScraper.CATEGORY_MAP, restricted to two of its keys
CATEGORY_MAP == {"politics", "world"}
\* a category name that is no key of CATEGORY_MAP
Unrecognized == "weather"

\* the outcome "no response at all" of one attempt (connection or read error)
NetworkError == 0
status_forcelist == {429, 500, 502, 503, 504}

RECURSIVE SeqsUpTo(_, _)
\* all sequences over S of length at most n
SeqsUpTo(S, n) ==
    IF n = 0 THEN {<<>>}
    ELSE LET shorter == SeqsUpTo(S, n - 1)
         IN  shorter \cup {Append(s, x) : s \in {t \in shorter : Len(t) = n - 1}, x \in S}

VARIABLES
    config,            \* the NewsScraperConfig of the run
    pc,                \* position of the main thread
    cat_idx,           \* index into config.categories of run()'s loop
    errors_occurred,   \* NewsScraper.errors_occurred
    usage_counts,      \* UserAgentRotator.usage_counts
    calls,             \* number of calls of get_next_user_agent begun
    last_agent,        \* the agent the latest finished call returned (0: none yet)
    version_requests,  \* requests.get calls made while the rotator was built
    lreq,              \* the request of session.post (get_news_list) in flight
    lbody,             \* the body of the response session.post returned
    response_links,    \* item["link"] of the items of a listing response
    news_list,         \* the "link" of the descriptors get_news_list returns
                       \* (followed in SpecLinks; elsewhere an item is its place in the listing)
    tasks,             \* the futures of the current category, by item
    collect_idx,       \* position of the collecting loop of process_category
    processed_articles,\* process_category's processed_articles (item ids)
    progress,          \* arguments of the calls of ProgressBar.update
    failure_count,     \* "Error processing article" entries logged for the category
    history,           \* per configured category: what run() did with it
    status_msgs        \* final status messages logged by run()

vars == <<config, pc, cat_idx, errors_occurred, usage_counts, calls, last_agent,
          version_requests, lreq, lbody, response_links, news_list, tasks,
          collect_idx, processed_articles, progress, failure_count, history, status_msgs>>

(* ------------------------------------------------ NewsScraperConfig.validate *)
\* TRUE iff validate() returns without raising ValueError
validate(cfg) ==
    /\ ~(cfg.headlines_per_category <= 0)
    /\ ~(cfg.max_workers <= 0)
    /\ ~PyGE(cfg.min_delay, cfg.max_delay)
    /\ cfg.categories # <<>>

(* ------------------------------------------------------ UserAgentRotator *)
Min(S) == CHOOSE x \in S : \A y \in S : x <= y
Max(S) == CHOOSE x \in S : \A y \in S : x >= y
Range(f) == {f[x] : x \in DOMAIN f}

least_used_mut_any(counts) == DOMAIN counts

\* lines 234-235: the agents whose count is the minimum
least_used(counts) ==
    LET min_usage == Min(Range(counts))
    IN  {ua \in DOMAIN counts : counts[ua] = min_usage}

\* lines 234-240 run by one caller without interruption, returning agent ua
get_next_user_agent(ua) ==
    /\ ua \in least_used(usage_counts)
    /\ usage_counts' = [usage_counts EXCEPT ![ua] = @ + 1]
    /\ calls' = calls + 1
    /\ last_agent' = ua

(* ------------------------------------- the session of _setup_session *)
\* A request handed to the session: Retry.total still left, the outcome of
\* every attempt made, and whether the call is still running ("pending"),
\* returned a response ("response") or raised ("error").
NewRequest(method, total) ==
    [method |-> method, left |-> total, hist |-> <<>>, state |-> "pending"]
NoRequest == [method |-> "none", left |-> 0, hist |-> <<>>, state |-> "idle"]

allowed_methods == {"GET", "POST"}

\* Retry: an attempt the strategy of lines 273-278 retries
is_retry(method, outcome) ==
    /\ method \in allowed_methods
    /\ outcome = NetworkError \/ outcome \in status_forcelist

is_exhausted_mut_early(left) == left < 1

\* Retry.is_exhausted after an increment: total has dropped below 0
is_exhausted(left) == left < 0

\* One attempt of the adapter with the given outcome (a status, or NetworkError)
SendAttempt(req, outcome) ==
    LET tried == [req EXCEPT !.hist = Append(@, outcome)]
    IN  IF is_retry(req.method, outcome)
        THEN IF is_exhausted(req.left - 1)
             THEN [tried EXCEPT !.state = "error"]
             ELSE [tried EXCEPT !.left = @ - 1]
        ELSE [tried EXCEPT !.state = "response"]

\* the status of the response a finished request returned
Status(req) == req.hist[Len(req.hist)]

raise_for_status_mut_server_only(status) == status >= 500 /\ status < 600

\* response.raise_for_status() raises HTTPError: a 4xx or 5xx status
raise_for_status(status) == status >= 400 /\ status < 600

(* ------------------------------------------------------------ the run *)
\* category names the explored configurations list
ConfiguredNames == {"politics", Unrecognized}

\* the body of a listing response: n items, or not the expected JSON
ListingBodies == {[ok |-> FALSE, n |-> 0]} \cup {[ok |-> TRUE, n |-> m] : m \in 0..MaxItems}
NoBody == [ok |-> FALSE, n |-> 0]

\* the configurations run() is explored with (invalid ones included)
MainConfigs ==
    [headlines_per_category : {0, MaxItems},
     categories : SeqsUpTo(ConfiguredNames, MaxCats),
     max_workers : 0..MaxWorkers,
     min_delay : {Float(-1), Float(0)},
     max_delay : {Float(1)},
     max_retries : 0..MaxRetries,
     use_csv : BOOLEAN]

\* a future of the executor and the call of fetch_article_content it runs
NewTask ==
    [st |-> "unsubmitted", sel |-> 0, tmp |-> 0, slept |-> 0, req |-> NoRequest,
     exhausted |-> FALSE, cause |-> "none", content |-> 0, order |-> 0]

\* what run() has done with one configured category
NewRecord ==
    [outcome |-> "pending", listing_requests |-> 0, listing_cause |-> "none",
     dispatched |-> FALSE, failed |-> FALSE, artifacts |-> 0]

Init ==
    /\ config \in MainConfigs
    /\ pc = "construct"
    /\ cat_idx = 1
    /\ errors_occurred = FALSE
    /\ usage_counts = <<>>
    /\ calls = 0
    /\ last_agent = 0
    /\ version_requests = 0
    /\ lreq = NoRequest
    /\ lbody = NoBody
    /\ response_links = <<>>
    /\ news_list = <<>>
    /\ tasks = <<>>
    /\ collect_idx = 1
    /\ processed_articles = <<>>
    /\ progress = <<>>
    /\ failure_count = 0
    /\ history = [i \in 1..Len(config.categories) |-> NewRecord]
    /\ status_msgs = <<>>

rotator_vars == <<usage_counts, calls, last_agent>>
listing_vars == <<lreq, lbody>>
link_vars == <<response_links, news_list>>
pool_vars == <<tasks, collect_idx, processed_articles, progress, failure_count>>

\* UserAgentRotator.__init__, lines 128-129: _get_chrome_versions and
\* _get_firefox_versions each issue one requests.get (an answer that cannot be
\* used falls back to the built-in version list)
VersionRequests == 2

\* NewsScraper.__init__: the rotator fetches the browser versions and builds
\* its pool of distinct agent strings
Construct ==
    /\ pc = "construct"
    /\ version_requests' = version_requests + VersionRequests
    /\ \E k \in 1..MaxPool : usage_counts' = [ua \in 1..k |-> 0]
    /\ errors_occurred' = FALSE
    /\ pc' = "validate"
    /\ UNCHANGED <<config, link_vars, cat_idx, calls, last_agent, listing_vars, pool_vars,
                   history, status_msgs>>

\* run(), line 490: validate() returns, or its ValueError ends run()
Validate ==
    /\ pc = "validate"
    /\ pc' = IF validate(config) THEN "run" ELSE "aborted"
    /\ UNCHANGED <<config, version_requests, link_vars, cat_idx, errors_occurred, rotator_vars,
                   listing_vars, pool_vars, history, status_msgs>>

category == config.categories[cat_idx]

recognized_mut_all(name) == TRUE

\* run(), line 492: category in self.CATEGORY_MAP
recognized(name) == name \in CATEGORY_MAP

InLoop == pc = "run" /\ cat_idx <= Len(config.categories)

\* run(), lines 495-497: a name that is no key of CATEGORY_MAP
RunInvalidCategory ==
    /\ InLoop
    /\ ~recognized(category)
    /\ errors_occurred' = TRUE
    /\ history' = [history EXCEPT ![cat_idx].outcome = "invalid",
                                  ![cat_idx].failed = TRUE]
    /\ cat_idx' = cat_idx + 1
    /\ UNCHANGED <<config, version_requests, link_vars, pc, rotator_vars, listing_vars,
                   pool_vars, status_msgs>>

\* run() line 493 into get_news_list, lines 380-404: the call of the rotator
\* (no worker thread is alive here) and the start of session.post
GetNewsList ==
    /\ InLoop
    /\ recognized(category)
    /\ \E ua \in DOMAIN usage_counts : get_next_user_agent(ua)
    /\ lreq' = NewRequest("POST", config.max_retries)
    /\ lbody' = NoBody
    /\ history' = [history EXCEPT ![cat_idx].listing_requests = @ + 1]
    /\ pc' = "listing"
    /\ UNCHANGED <<config, version_requests, link_vars, cat_idx, errors_occurred, pool_vars,
                   status_msgs>>

\* statuses the remote system answers with (NetworkError: no answer)
MainOutcomes == {NetworkError, 200, 304, 404, 503}
\* one attempt of session.post, lines 400-404
ListingAttempt ==
    /\ pc = "listing"
    /\ lreq.state = "pending"
    /\ \E outcome \in MainOutcomes, body \in ListingBodies :
         /\ lreq' = SendAttempt(lreq, outcome)
         /\ lbody' = IF lreq'.state = "response" THEN body ELSE NoBody
    /\ UNCHANGED <<config, version_requests, link_vars, pc, cat_idx, errors_occurred,
                   rotator_vars, pool_vars, history, status_msgs>>

\* lines 405-422: where get_news_list raises, "none" if it returns the list
listing_cause(req, body) ==
    IF req.state = "error" THEN "retries_exhausted"
    ELSE IF raise_for_status(Status(req)) THEN "http_status"
    ELSE IF ~body.ok THEN "body"
    ELSE "none"

\* get_news_list raised (lines 415-422), caught by process_category, lines 485-487
ListingFailed(cause) ==
    /\ errors_occurred' = TRUE
    /\ history' = [history EXCEPT ![cat_idx].outcome = "listing_failed",
                                  ![cat_idx].listing_cause = cause,
                                  ![cat_idx].failed = TRUE]
    /\ cat_idx' = cat_idx + 1
    /\ pc' = "run"
    /\ UNCHANGED pool_vars

\* process_category, lines 456-457, after get_news_list returned n items
ListingReturned(n) ==
    /\ tasks' = [i \in 1..n |-> NewTask]
    /\ collect_idx' = 1
    /\ processed_articles' = <<>>
    /\ progress' = <<>>
    /\ failure_count' = 0
    /\ pc' = IF n = 0 THEN "collect" ELSE "submit"
    /\ UNCHANGED <<cat_idx, errors_occurred, history>>

\* session.post has ended: lines 405-422, then process_category
ListingDone ==
    /\ pc = "listing"
    /\ lreq.state \in {"response", "error"}
    /\ LET cause == listing_cause(lreq, lbody)
       IN  IF cause = "none" THEN ListingReturned(lbody.n) ELSE ListingFailed(cause)
    /\ lreq' = NoRequest
    /\ lbody' = NoBody
    /\ UNCHANGED <<config, version_requests, link_vars, rotator_vars, status_msgs>>

(* ---------------------------------------- the pool of process_category *)
\* most text blocks a content page yields
MaxBlocks == 1

Items == DOMAIN tasks
\* the calls of fetch_article_content a worker thread is executing
Running == {i \in Items : tasks[i].st \in {"select", "read", "write", "sleep", "request"}}
Submitted == {i \in Items : tasks[i].st # "unsubmitted"}

\* lines 460-463: executor.submit for the next article of news_list
Submit ==
    /\ pc = "submit"
    /\ LET i == Cardinality(Submitted) + 1
       IN  /\ tasks' = [tasks EXCEPT ![i].st = "queued"]
           /\ pc' = IF i = Len(tasks) THEN "collect" ELSE "submit"
    /\ history' = [history EXCEPT ![cat_idx].dispatched = TRUE]
    /\ UNCHANGED <<config, version_requests, link_vars, cat_idx, errors_occurred, rotator_vars,
                   listing_vars, collect_idx, processed_articles, progress, failure_count,
                   status_msgs>>

worker_free_mut_unbounded(n) == TRUE
worker_free_mut_one_short(n) == n < config.max_workers - 1

\* ThreadPoolExecutor(max_workers=...), line 459: a thread is there to take a
\* work item while fewer than max_workers items are being executed
worker_free(n) == n < config.max_workers

\* a worker thread takes the oldest queued work item
StartTask(i) ==
    /\ tasks[i].st = "queued"
    /\ \A j \in Items : j < i => tasks[j].st # "queued"
    /\ worker_free(Cardinality(Running))
    /\ tasks' = [tasks EXCEPT ![i].st = "select"]
    /\ UNCHANGED <<config, version_requests, link_vars, pc, cat_idx, errors_occurred,
                   rotator_vars, listing_vars, collect_idx, processed_articles, progress,
                   failure_count, history, status_msgs>>

\* fetch_article_content line 339 -> lines 234-237: minimum, least_used, choice
UaSelect(i) ==
    /\ tasks[i].st = "select"
    /\ \E ua \in least_used(usage_counts) :
         tasks' = [tasks EXCEPT ![i].st = "read", ![i].sel = ua]
    /\ calls' = calls + 1
    /\ UNCHANGED <<config, version_requests, link_vars, pc, cat_idx, errors_occurred,
                   usage_counts, last_agent, listing_vars, collect_idx, processed_articles,
                   progress, failure_count, history, status_msgs>>

\* line 238, the load of usage_counts[selected_agent]
UaRead(i) ==
    /\ tasks[i].st = "read"
    /\ tasks' = [tasks EXCEPT ![i].st = "write", ![i].tmp = usage_counts[tasks[i].sel]]
    /\ UNCHANGED <<config, version_requests, link_vars, pc, cat_idx, errors_occurred,
                   rotator_vars, listing_vars, collect_idx, processed_articles, progress,
                   failure_count, history, status_msgs>>

\* line 238, the store of the incremented count; line 240
UaWrite(i) ==
    /\ tasks[i].st = "write"
    /\ usage_counts' = [usage_counts EXCEPT ![tasks[i].sel] = tasks[i].tmp + 1]
    /\ last_agent' = tasks[i].sel
    /\ tasks' = [tasks EXCEPT ![i].st = "sleep", ![i].sel = 0, ![i].tmp = 0]
    /\ UNCHANGED <<config, version_requests, link_vars, pc, cat_idx, errors_occurred, calls,
                   listing_vars, collect_idx, processed_articles, progress, failure_count,
                   history, status_msgs>>

\* the futures of the category that are done
Done == {i \in Items : tasks[i].st = "done"}

\* the call ends: the future holds the article or the exception raised at
\* `cause`; exhausted: the session raised after using up its retries; order:
\* the place of this future among the category's futures in order of completion
Resolve(i, req, cause, content) ==
    [tasks EXCEPT ![i].st = "done", ![i].cause = cause, ![i].content = content,
                  ![i].exhausted = (req.state = "error"), ![i].req = NoRequest,
                  ![i].order = Cardinality(Done) + 1]

\* random.uniform(min_delay, max_delay), to whole seconds
uniform(lo, hi) == {Float(d) : d \in lo.v..hi.v}

\* line 346: time.sleep raises ValueError for a negative duration (outside the
\* try of line 348); otherwise the delay elapses and session.get begins
Sleep(i) ==
    /\ tasks[i].st = "sleep"
    /\ \E d \in uniform(config.min_delay, config.max_delay) :
         IF PyLT(d, Float(0))
         THEN tasks' = Resolve(i, NoRequest, "sleep", 0)
         ELSE tasks' = [tasks EXCEPT ![i].st = "request", ![i].slept = @ + 1,
                                     ![i].req = NewRequest("GET", config.max_retries)]
    /\ UNCHANGED <<config, version_requests, link_vars, pc, cat_idx, errors_occurred,
                   rotator_vars, listing_vars, collect_idx, processed_articles, progress,
                   failure_count, history, status_msgs>>

fetch_cause_mut_swallow(req, blocks) ==
    IF req.state = "error" THEN "none"
    ELSE IF raise_for_status(Status(req)) THEN "http_status"
    ELSE IF blocks = 0 THEN "no_content"
    ELSE "none"

fetch_cause_mut_empty_ok(req, blocks) ==
    IF req.state = "error" THEN "retries_exhausted"
    ELSE IF raise_for_status(Status(req)) THEN "http_status"
    ELSE "none"

\* lines 349-376 once session.get has ended: where the call raises, "none" if
\* it returns the article
fetch_cause(req, blocks) ==
    IF req.state = "error" THEN "retries_exhausted"
    ELSE IF raise_for_status(Status(req)) THEN "http_status"
    ELSE IF blocks = 0 THEN "no_content"
    ELSE "none"

flag_after_mut_overwrite(flag, failed) == failed

\* self.errors_occurred = True in an except branch (lines 371, 375, 472): the
\* flag after a step that has failed or not
flag_after(flag, failed) == IF failed THEN TRUE ELSE flag

\* one attempt of session.get; when the call ends, lines 350-376
Attempt(i) ==
    /\ tasks[i].st = "request"
    /\ \E outcome \in MainOutcomes, blocks \in 0..MaxBlocks :
         LET req == SendAttempt(tasks[i].req, outcome)
             cause == fetch_cause(req, blocks)
         IN  IF req.state = "pending"
             THEN /\ tasks' = [tasks EXCEPT ![i].req = req]
                  /\ UNCHANGED errors_occurred
             ELSE /\ tasks' = Resolve(i, req, cause, IF cause = "none" THEN blocks ELSE 0)
                  /\ errors_occurred' = flag_after(errors_occurred, cause # "none")
    /\ UNCHANGED <<config, version_requests, link_vars, pc, cat_idx, rotator_vars, listing_vars,
                   collect_idx, processed_articles, progress, failure_count, history,
                   status_msgs>>

returned_mut_fail_fast(task) == task.cause = "none" /\ ~errors_occurred

\* line 467: future.result() returns the article (it re-raises otherwise)
returned(task) == task.cause = "none"

appended_mut_always(articles, i, ok) == Append(articles, i)

\* line 468, reached only when future.result() returned
appended(articles, i, ok) == IF ok THEN Append(articles, i) ELSE articles

result_ready_mut_no_wait(task) == TRUE

\* line 467: future.result() blocks until the call of the future has ended
result_ready(task) == task.st = "done"

\* lines 465-472: future.result() of the next future in submission order
Collect ==
    /\ pc = "collect"
    /\ collect_idx <= Len(tasks)
    /\ result_ready(tasks[collect_idx])
    /\ LET ok == returned(tasks[collect_idx])
       IN  /\ processed_articles' = appended(processed_articles, collect_idx, ok)
           /\ progress' = IF ok THEN Append(progress, collect_idx) ELSE progress
           /\ failure_count' = IF ok THEN failure_count ELSE failure_count + 1
           /\ errors_occurred' = flag_after(errors_occurred, ~ok)
           /\ history' = [history EXCEPT ![cat_idx].failed = @ \/ ~ok]
    /\ collect_idx' = collect_idx + 1
    /\ UNCHANGED <<config, version_requests, link_vars, pc, cat_idx, rotator_vars, listing_vars,
                   tasks, status_msgs>>

\* save_to_csv returns without writing when there are no articles (line 426)
writes_file(articles, use_csv) == ~use_csv \/ articles # <<>>

\* lines 474-483 after the pool has shut down, then back in run()
Output ==
    /\ pc = "collect"
    /\ collect_idx > Len(tasks)
    /\ history' = [history EXCEPT
                     ![cat_idx].outcome = "completed",
                     ![cat_idx].artifacts =
                        IF writes_file(processed_articles, config.use_csv) THEN 1 ELSE 0]
    /\ tasks' = <<>>
    /\ processed_articles' = <<>>
    /\ progress' = <<>>
    /\ failure_count' = 0
    /\ collect_idx' = 1
    /\ cat_idx' = cat_idx + 1
    /\ pc' = "run"
    /\ UNCHANGED <<config, version_requests, link_vars, errors_occurred, rotator_vars,
                   listing_vars, status_msgs>>

final_status_mut_inverted(flag) == IF flag THEN "success" ELSE "failure"

\* lines 499-502: which of the two final messages is logged
final_status(flag) == IF ~flag THEN "success" ELSE "failure"

\* run(), lines 499-502: the final status message
Finish ==
    /\ pc = "run"
    /\ cat_idx > Len(config.categories)
    /\ status_msgs' = Append(status_msgs, final_status(errors_occurred))
    /\ pc' = "done"
    /\ UNCHANGED <<config, version_requests, link_vars, cat_idx, errors_occurred, rotator_vars,
                   listing_vars, pool_vars, history>>

Next ==
    \/ Construct
    \/ Validate
    \/ RunInvalidCategory
    \/ GetNewsList
    \/ ListingAttempt
    \/ ListingDone
    \/ Submit
    \/ \E i \in Items : StartTask(i)
    \/ \E i \in Items : UaSelect(i)
    \/ \E i \in Items : UaRead(i)
    \/ \E i \in Items : UaWrite(i)
    \/ \E i \in Items : Sleep(i)
    \/ \E i \in Items : Attempt(i)
    \/ Collect
    \/ Output
    \/ Finish

Spec == Init /\ [][Next]_vars

\* The main thread runs on, the worker threads of the executor are scheduled
\* while they have work, and an attempt of a request that has begun comes to
\* an end: some step that can be taken is taken.
SpecFair == Init /\ [][Next]_vars /\ WF_vars(Next)

(* --------------------------------------------- validate() on its own *)
\* a configuration for the parts explored on their own
SomeConfig ==
    [headlines_per_category |-> MaxItems, categories |-> <<"politics">>,
     max_workers |-> 1, min_delay |-> Float(0), max_delay |-> Float(1),
     max_retries |-> 0, use_csv |-> FALSE]

Delays == {NaN} \cup {Float(d) : d \in -1..MaxCfg}

\* the settings main() can store into a NewsScraperConfig (lines 615-624)
ValidateConfigs ==
    [headlines_per_category : -1..MaxCfg,
     categories : SeqsUpTo(ConfiguredNames, 1),
     max_workers : -1..MaxCfg,
     min_delay : Delays,
     max_delay : Delays,
     max_retries : {0},
     use_csv : {FALSE}]

\* a scraper that has been constructed and has not run yet
Idle ==
    /\ cat_idx = 1
    /\ errors_occurred = FALSE
    /\ calls = 0
    /\ last_agent = 0
    /\ version_requests = VersionRequests
    /\ lreq = NoRequest
    /\ lbody = NoBody
    /\ news_list = <<>>
    /\ tasks = <<>>
    /\ collect_idx = 1
    /\ processed_articles = <<>>
    /\ progress = <<>>
    /\ failure_count = 0
    /\ history = [i \in 1..Len(config.categories) |-> NewRecord]
    /\ status_msgs = <<>>

InitValidate ==
    /\ config \in ValidateConfigs
    /\ pc = "validate"
    /\ usage_counts = [ua \in 1..MaxPool |-> 0]
    /\ response_links = <<>>
    /\ Idle

SpecValidate == InitValidate /\ [][Validate]_vars

(* ------------------------------------------ the rotator on its own *)
InitRotator ==
    /\ config = SomeConfig
    /\ pc = "rotator"
    /\ \E k \in 1..MaxAgents : usage_counts = [ua \in 1..k |-> 0]
    /\ response_links = <<>>
    /\ Idle

\* one caller at a time calls get_next_user_agent
RotatorCall ==
    /\ pc = "rotator"
    /\ calls < MaxCalls
    /\ \E ua \in DOMAIN usage_counts : get_next_user_agent(ua)
    /\ UNCHANGED <<config, version_requests, link_vars, pc, cat_idx, errors_occurred,
                   listing_vars, pool_vars, history, status_msgs>>

SpecRotator == InitRotator /\ [][RotatorCall]_vars

(* ------------------------------------------ the session on its own *)
TransportOutcomes == {NetworkError, 200, 304, 404} \cup status_forcelist

InitTransport ==
    /\ \E r \in 0..MaxRetries : config = [SomeConfig EXCEPT !.max_retries = r]
    /\ pc = "transport"
    /\ usage_counts = [ua \in 1..MaxPool |-> 0]
    /\ cat_idx = 1
    /\ errors_occurred = FALSE
    /\ calls = 0
    /\ last_agent = 0
    /\ version_requests = VersionRequests
    /\ \E m \in allowed_methods : lreq = NewRequest(m, config.max_retries)
    /\ lbody = NoBody
    /\ response_links = <<>>
    /\ news_list = <<>>
    /\ tasks = <<>>
    /\ collect_idx = 1
    /\ processed_articles = <<>>
    /\ progress = <<>>
    /\ failure_count = 0
    /\ history = [i \in 1..Len(config.categories) |-> NewRecord]
    /\ status_msgs = <<>>

\* one attempt of session.get or session.post
SessionRequest ==
    /\ pc = "transport"
    /\ lreq.state = "pending"
    /\ \E outcome \in TransportOutcomes : lreq' = SendAttempt(lreq, outcome)
    /\ UNCHANGED <<config, version_requests, link_vars, pc, cat_idx, errors_occurred,
                   rotator_vars, lbody, pool_vars, history, status_msgs>>

SpecTransport == InitTransport /\ [][SessionRequest]_vars

(* ------------------------- the links of get_news_list on their own *)
\* An address is the sequence of its parts: a scheme-and-host part, or a path
\* segment.  Formatting two strings one after the other is concatenation.
Origin == "https://tass.com"
Hosts == {Origin, "https://tass.ru"}
Segments == {"/politics", "/1"}
\* a path: one segment or more
Paths == SeqsUpTo(Segments, MaxSegs) \ {<<>>}
\* the "link" of an item as the remote system sends it: a path, or an
\* absolute address
RemoteLinks == Paths \cup {<<h>> \o p : h \in Hosts, p \in Paths}

\* line 412: f"https://tass.com{item['link']}"
link(item_link) == <<Origin>> \o item_link

\* an address a request can be sent to as it stands: one scheme-and-host
\* part, then path segments only
IsAbsolute(address) ==
    /\ Len(address) >= 1
    /\ address[1] \in Hosts
    /\ \A k \in 2..Len(address) : address[k] \in Segments

InitLinks ==
    /\ config = SomeConfig
    /\ pc = "links"
    /\ usage_counts = [ua \in 1..MaxPool |-> 0]
    /\ Idle
    /\ response_links \in SeqsUpTo(RemoteLinks, MaxItems)

\* lines 407-413: one descriptor per item of newsList
BuildNewsList ==
    /\ pc = "links"
    /\ news_list' = [k \in 1..Len(response_links) |-> link(response_links[k])]
    /\ pc' = "links_built"
    /\ UNCHANGED <<config, version_requests, response_links, cat_idx, errors_occurred,
                   rotator_vars, listing_vars, pool_vars, history, status_msgs>>

SpecLinks == InitLinks /\ [][BuildNewsList]_vars

(* ------------------------------------------------------------ claims *)
CategoryDone == pc = "collect" /\ collect_idx > Len(tasks)
Collected == {i \in Items : i < collect_idx}
Successes == Range(processed_articles)

\* C1: every future collected so far has produced exactly one outcome, an
\* article appended once to processed_articles or one logged item failure, so
\* that once all M futures of the listing are collected successes + failures = M.
C1_OneOutcomePerItem ==
    pc \in {"submit", "collect"} =>
        /\ Len(processed_articles) + failure_count = Cardinality(Collected)
        /\ Cardinality(Successes) = Len(processed_articles)
        /\ Successes \subseteq Collected
        /\ CategoryDone =>
             /\ \A i \in Items : tasks[i].st = "done"
             /\ Len(processed_articles) + failure_count = Len(tasks)

C1_Witness ==
    /\ CategoryDone
    /\ Len(tasks) = 2
    /\ Len(processed_articles) = 1
    /\ failure_count = 1

\* C2: a failing item never keeps a sibling from being fetched and collected:
\* every collected item whose fetch returned is among the successes, and when
\* the category is done every item has been fetched, so with exactly one
\* failing item the other M-1 are the successes.
C2_SiblingsUnaffected ==
    pc \in {"submit", "collect"} =>
        /\ \A i \in Collected : tasks[i].cause = "none" => i \in Successes
        /\ CategoryDone =>
             /\ \A i \in Items : tasks[i].st = "done"
             /\ Cardinality({i \in Items : tasks[i].cause # "none"}) = 1
                   => Len(processed_articles) = Len(tasks) - 1

C2_Witness ==
    /\ CategoryDone
    /\ Len(tasks) = 2
    /\ tasks[1].cause = "no_content"
    /\ tasks[2].cause = "none"
    /\ processed_articles = <<2>>

\* C3: at no time do more than max_workers calls of fetch_article_content execute.
C3_BoundedWorkers == Cardinality(Running) <= config.max_workers

C3_Witness ==
    /\ config.max_workers >= 1
    /\ Cardinality(Running) = config.max_workers
    /\ \E i \in Items : tasks[i].st = "queued"

\* C4: when run() has ended, the success message was logged only if no
\* category was unrecognized, no listing failed and no item failed.
C4_SuccessOnlyIfNoFailure ==
    pc = "done" =>
        /\ Len(status_msgs) = 1
        /\ status_msgs[1] = "success" =>
             \A c \in DOMAIN history :
                 ~history[c].failed /\ history[c].outcome = "completed"

C4_Witness ==
    /\ pc = "done"
    /\ Len(history) = 2
    /\ history[1].failed /\ history[1].outcome = "completed"
    /\ ~history[2].failed /\ history[2].outcome = "completed" /\ history[2].dispatched
    /\ status_msgs = <<"failure">>

\* C5: for an unrecognized category no listing request and no content fetch
\* is ever dispatched, run() sets the failure flag when it reaches it, and the
\* recognized categories of the list have all been processed when run() ends.
C5_UnrecognizedSkipped ==
    \A c \in DOMAIN history :
        /\ config.categories[c] \notin CATEGORY_MAP =>
             /\ history[c].listing_requests = 0
             /\ ~history[c].dispatched
             /\ (c < cat_idx) => (history[c].outcome = "invalid" /\ errors_occurred)
        /\ (pc = "done" /\ config.categories[c] \in CATEGORY_MAP) =>
             /\ history[c].outcome \in {"completed", "listing_failed"}
             /\ history[c].listing_requests = 1

C5_Witness ==
    /\ pc = "done"
    /\ config.categories = <<Unrecognized, "politics">>
    /\ history[2].outcome = "completed"
    /\ history[2].dispatched

\* session.post has ended in the listing failure the claim C6 names
ListingEnded == pc = "listing" /\ lreq.state \in {"response", "error"}
CategoryAborted ==
    /\ history'[cat_idx].outcome = "listing_failed"
    /\ ~history'[cat_idx].dispatched
    /\ errors_occurred'
    /\ pc' = "run"
    /\ cat_idx' = cat_idx + 1
AllVisited ==
    pc = "done" => \A c \in DOMAIN history : history[c].outcome # "pending"
NeverDispatchedAfterFailure ==
    \A c \in DOMAIN history :
        history[c].outcome = "listing_failed" => ~history[c].dispatched /\ errors_occurred

\* C6 as stated: a listing that ends in a network failure, a status outside
\* 2xx or a body missing the expected fields aborts that category only.
C6_Original ==
    /\ [][(ListingEnded /\ (\/ lreq.state = "error"
                            \/ Status(lreq) \notin 200..299
                            \/ ~lbody.ok)) => CategoryAborted]_vars
    /\ [](AllVisited /\ NeverDispatchedAfterFailure)

\* C6 as amended: a listing that ends in a network failure or a retried status
\* with the retries used up, in a 4xx or 5xx status, or in a body missing the
\* expected fields aborts that category only: no content fetch is dispatched
\* for it, the failure flag is set, and every later category is processed.
C6_ListingFailureAbortsCategoryOnly ==
    /\ [][(ListingEnded /\ (\/ lreq.state = "error"
                            \/ Status(lreq) \in 400..599
                            \/ ~lbody.ok)) => CategoryAborted]_vars
    /\ [](AllVisited /\ NeverDispatchedAfterFailure)

C6_Witness ==
    /\ pc = "done"
    /\ Len(history) = 2
    /\ history[1].outcome = "listing_failed"
    /\ history[2].outcome = "completed"
    /\ history[2].dispatched

\* C7: after any number of calls made one after the other, the largest and
\* the smallest usage count differ by at most 1.
C7_Balanced ==
    usage_counts # <<>> => Max(Range(usage_counts)) - Min(Range(usage_counts)) <= 1

C7_Witness ==
    /\ pc = "rotator"
    /\ Cardinality(DOMAIN usage_counts) = 3
    /\ calls = 5
    /\ Max(Range(usage_counts)) = 2
    /\ Min(Range(usage_counts)) = 1

Transient(outcome) == outcome = NetworkError \/ outcome \in {429, 500, 502, 503, 504}
RECURSIVE LeadingTransients(_)
\* how many attempts at the start of h hit a transient failure
LeadingTransients(h) ==
    IF h = <<>> \/ ~Transient(Head(h)) THEN 0 ELSE 1 + LeadingTransients(Tail(h))

\* C8: after k <= max_retries transient failures the request is still being
\* tried, and the first attempt that is no transient failure ends it with
\* that attempt's response: a success after k transient failures takes exactly
\* k+1 attempts, and a failure that is not transient is not retried.
C8_RetryUntilSuccess ==
    pc = "transport" =>
        LET h == lreq.hist
            k == LeadingTransients(h)
        IN  /\ (Len(h) = k /\ k <= config.max_retries) => lreq.state = "pending"
            /\ Len(h) > k => (Len(h) = k + 1 /\ lreq.state = "response")

C8_Witness ==
    /\ pc = "transport"
    /\ lreq.hist = <<503, 200>>
    /\ lreq.state = "response"

AllTransient(h) == \A n \in 1..Len(h) : Transient(h[n])

\* C9: a request is attempted at most max_retries + 1 times; the session
\* gives up only after max_retries + 1 transient failures, and a request given
\* up on is a failure of its category or item with the failure flag set, never
\* a success.
C9_ExhaustionSurfaces ==
    /\ [](/\ Len(lreq.hist) <= config.max_retries + 1
          /\ (pc = "listing" /\ lreq.state = "error") =>
                (Len(lreq.hist) = config.max_retries + 1 /\ AllTransient(lreq.hist))
          /\ \A c \in DOMAIN history :
                history[c].listing_cause = "retries_exhausted" =>
                    /\ history[c].outcome = "listing_failed"
                    /\ ~history[c].dispatched
                    /\ errors_occurred
          /\ \A i \in Items :
                /\ Len(tasks[i].req.hist) <= config.max_retries
                /\ AllTransient(tasks[i].req.hist)
                /\ tasks[i].exhausted =>
                     /\ tasks[i].cause # "none"
                     /\ errors_occurred
                     /\ i \notin Successes
                     /\ i \in Collected => failure_count >= 1)
    /\ [][/\ (pc = "listing" /\ lreq.state = "error") =>
                history'[cat_idx].listing_cause = "retries_exhausted"
          /\ \A i \in Items :
                (pc' = pc /\ ~tasks[i].exhausted /\ tasks'[i].exhausted) =>
                    Len(tasks[i].req.hist) = config.max_retries]_vars

C9_Witness ==
    /\ CategoryDone
    /\ config.max_retries = 1
    /\ Len(tasks) = 2
    /\ tasks[1].exhausted
    /\ tasks[2].cause = "none"
    /\ failure_count = 1

\* C10: validate() accepts exactly the configurations with positive
\* headlines_per_category and max_workers, min_delay < max_delay and a
\* non-empty category list.
C10_ValidateIff ==
    pc \in {"run", "aborted"} =>
        (pc = "run" <=>
            /\ config.headlines_per_category > 0
            /\ config.max_workers > 0
            /\ PyLT(config.min_delay, config.max_delay)
            /\ config.categories # <<>>)

\* C11: when validate() rejects the configuration, no outbound request has
\* been issued since the scraper began to be constructed.
C11_NoRequestBeforeRejection ==
    pc = "aborted" =>
        /\ version_requests = 0
        /\ calls = 0
        /\ \A c \in DOMAIN history : history[c].listing_requests = 0

\* C12: processed_articles lists the successful items of the category in the
\* order in which their fetches completed.
C12_CompletionOrder ==
    pc \in {"submit", "collect"} =>
        \A a, b \in 1..Len(processed_articles) :
            a < b => tasks[processed_articles[a]].order < tasks[processed_articles[b]].order

\* C13: categories are processed one after the other in the configured order:
\* outside the pool of the current category no fetch exists, a listing request
\* is in flight only while no fetch exists, nothing has been done for a later
\* category, every earlier category is finished, run() moves to the next
\* category only when every dispatched fetch has resolved, and a fetch is
\* submitted only after the listing of its category has returned.
C13_NoInterleaving ==
    /\ [](/\ pc \notin {"submit", "collect"} => tasks = <<>>
          /\ lreq.state # "idle" => (pc = "listing" /\ tasks = <<>>)
          /\ \A c \in DOMAIN history :
                /\ c > cat_idx => history[c] = NewRecord
                /\ c < cat_idx => history[c].outcome # "pending"
          /\ \A i \in Items :
                tasks[i].st # "unsubmitted" =>
                    /\ history[cat_idx].listing_requests = 1
                    /\ history[cat_idx].dispatched
                    /\ lreq = NoRequest)
    /\ [][cat_idx' # cat_idx =>
             /\ cat_idx' = cat_idx + 1
             /\ \A i \in Items : tasks[i].st = "done"
             /\ tasks' = <<>>]_vars

C13_Witness ==
    /\ pc = "collect"
    /\ cat_idx = 2
    /\ history[1].outcome = "completed"
    /\ history[1].dispatched
    /\ Running # {}

\* C14: every recognized category whose listing succeeded has exactly one
\* artifact, written when all its fetches have resolved from exactly its
\* successful items, in both formats and also when it has no successful item;
\* no other category has one.
C14_OneArtifactPerCategory ==
    /\ [](\A c \in DOMAIN history :
             /\ history[c].outcome = "completed" => history[c].artifacts = 1
             /\ history[c].outcome # "completed" => history[c].artifacts = 0)
    /\ [][(pc = "collect" /\ pc' = "run") =>
             /\ \A i \in Items : tasks[i].st = "done"
             /\ Successes = {i \in Items : tasks[i].cause = "none"}
             /\ history'[cat_idx].artifacts = 1]_vars

\* C15: every link get_news_list returns is an absolute address, whether the
\* listing carried the item's link as a path or as an absolute address.
C15_LinksAbsolute ==
    pc = "links_built" =>
        /\ Len(news_list) = Len(response_links)
        /\ \A k \in 1..Len(news_list) : IsAbsolute(news_list[k])

\* C16: a content response with no text block is a failure of its item, never
\* a success: a resolved fetch returned an article exactly when at least one
\* block was extracted, every item of processed_articles has a content of
\* length >= 1, and no collected item is both a success and a counted failure.
C16_NoEmptySuccess ==
    pc \in {"submit", "collect"} =>
        /\ \A i \in Done : tasks[i].cause = "none" <=> tasks[i].content >= 1
        /\ \A i \in Successes : tasks[i].content >= 1
        /\ \A i \in Collected : i \in Successes <=> tasks[i].cause = "none"
        /\ failure_count = Cardinality({i \in Collected : tasks[i].cause # "none"})

C16_Witness ==
    /\ CategoryDone
    /\ Len(tasks) = 2
    /\ tasks[1].content = 1
    /\ tasks[2].cause = "no_content"
    /\ processed_articles = <<1>>
    /\ failure_count = 1

\* C17: errors_occurred is FALSE until run() has begun, and no step of the
\* main thread or of a worker resets it once it is TRUE.
C17_FlagMonotone ==
    /\ [](pc \in {"construct", "validate"} => ~errors_occurred)
    /\ [][errors_occurred => errors_occurred']_vars

C17_Witness ==
    /\ pc = "collect"
    /\ cat_idx = 2
    /\ history[1].outcome = "invalid"
    /\ errors_occurred
    /\ processed_articles # <<>>

\* the calls of get_next_user_agent that have chosen an agent and not yet
\* stored its incremented count
InRotator == {i \in Items : tasks[i].st \in {"read", "write"}}

\* C18: the calls the workers make of get_next_user_agent exclude each other
\* from choice to increment, and the largest and the smallest usage count
\* never differ by more than 1.
C18_AtomicRotation ==
    /\ Cardinality(InRotator) <= 1
    /\ usage_counts # <<>> =>
           \A a, b \in DOMAIN usage_counts : usage_counts[a] - usage_counts[b] <= 1

\* C19: a call returns the agent the call before it returned only if that
\* agent is, at the later call, the only one with the minimum usage count.
C19_NoImmediateReuse ==
    [][(calls' = calls + 1 /\ last_agent # 0 /\ last_agent' = last_agent)
          => least_used(usage_counts) = {last_agent}]_vars

\* C20: every item is delayed exactly once by the time its fetch resolves, no
\* attempt of its content request is made before that delay has elapsed, and
\* the attempts the session makes for it add no delay and skip none.
C20_DelayOncePerItem ==
    /\ [](\A i \in Items :
             /\ tasks[i].st \in {"unsubmitted", "queued", "select", "read", "write", "sleep"}
                   => (tasks[i].slept = 0 /\ tasks[i].req = NoRequest)
             /\ tasks[i].st \in {"request", "done"} => tasks[i].slept = 1)
    /\ [][\A i \in Items :
             (pc' = pc /\ i \in DOMAIN tasks' /\ tasks'[i].req.hist # tasks[i].req.hist
                 /\ tasks[i].st = "request")
                => (tasks[i].slept = 1 /\ tasks'[i].slept = 1)]_vars

\* C21: ProgressBar.update has been called once for every outcome collected so
\* far, success or failure, with counts that increase, and when the last
\* outcome of a listing of M items has been collected the latest call carried M.
C21_ProgressEveryOutcome ==
    pc \in {"submit", "collect"} =>
        /\ Len(progress) = Cardinality(Collected)
        /\ \A a, b \in 1..Len(progress) : a < b => progress[a] < progress[b]
        /\ (CategoryDone /\ Len(tasks) > 0) => progress[Len(progress)] = Len(tasks)

\* run() has returned after visiting every configured category, with no fetch
\* left and one final status message
Terminated ==
    /\ pc = "done"
    /\ Len(status_msgs) = 1
    /\ tasks = <<>>
    /\ \A c \in DOMAIN history : history[c].outcome # "pending"

\* C22: once validate() has accepted the configuration, run() eventually
\* returns: every configured category has been visited, every fetch that was
\* submitted has resolved, and the final status message is reported, never
\* more than once.
C22_RunTerminates ==
    /\ [](Len(status_msgs) <= 1)
    /\ (pc = "run") ~> Terminated
    /\ \A i \in 1..MaxItems :
          (i \in Items /\ tasks[i].st = "queued") ~> (i \in Items /\ tasks[i].st = "done")

C22_Witness ==
    /\ Terminated
    /\ config.categories = <<"politics", "politics">>
    /\ history[1].dispatched
    /\ history[2].dispatched
    /\ status_msgs = <<"success">>

RECURSIVE SumTo(_, _)
\* counts[1] + ... + counts[n]
SumTo(counts, n) == IF n = 0 THEN 0 ELSE counts[n] + SumTo(counts, n - 1)
TotalUsage == SumTo(usage_counts, Len(usage_counts))

\* the fetches of the current category that have asked for an agent, and
\* those whose call of get_next_user_agent has returned
Asked == {i \in Items : tasks[i].st \in {"read", "write", "sleep", "request", "done"}}
Served == {i \in Items : tasks[i].st \in {"sleep", "request", "done"}}

\* C23: one agent is asked for per listing fetch and per content fetch (in the
\* first category: one call for the listing and one for each fetch a worker
\* has begun), and no increment is lost: the usage counts add up to the calls
\* that have returned, so that at the end of run() their sum is the number of
\* listing fetches plus the number of content fetches.
C23_NoLostIncrement ==
    /\ (cat_idx = 1 /\ pc \in {"submit", "collect"}) =>
          /\ calls = history[1].listing_requests + Cardinality(Asked)
          /\ TotalUsage = history[1].listing_requests + Cardinality(Served)
    /\ pc = "done" => TotalUsage = calls

====
